---------------------------- MODULE Spec2Model ----------------------------
(***************************************************************************)
(* A model of the allocator of src/osmem.c: one intrusive singly-linked    *)
(* list of block headers, fed by the program break (sbrk) and by anonymous *)
(* mappings (mmap), with the four public operations os_malloc, os_free,    *)
(* os_calloc and os_realloc.                                               *)
(*                                                                         *)
(* Addresses and sizes are machine words.  TLC's integers are 32 bits      *)
(* wide, so the word is WordBits wide instead of 64: every size_t and      *)
(* pointer computation of the source is taken modulo WordMod.              *)
(***************************************************************************)
EXTENDS Integers, Sequences, FiniteSets, TLC

\* ------------------------------------------------------------------------
\* Bounds of the model
\* ------------------------------------------------------------------------
WordBits == 24
WordMod == 2 ^ WordBits
MaxCalls == 3
MaxDeepCalls == 4
MaxStores == 1
MaxBlocks == 5

\* ------------------------------------------------------------------------
\* Constants of the program
\* ------------------------------------------------------------------------
ALIGNMENT == 8
PREALLOC_SIZE == 128 * 1024
DEFAULT_MAP_THRESHOLD == 128 * 1024
PageSize == 4096
NULL == 0
\* sizeof(struct block_meta): three fields, size (size_t), next (pointer),
\* status (int, padded), in that order.
BLOCK_META_SIZE == 24
OFF_SIZE == 0
OFF_NEXT == 8
OFF_STATUS == 16
STATUS_FREE == "FREE"
STATUS_ALLOC == "ALLOC"
STATUS_MAPPED == "MAPPED"
\* (void *) -1
ALLOCATION_FAILED == WordMod - 1

\* The operating system's layout: the initial program break, the lowest
\* address mmap hands out (and the limit of the break).
HeapBase == 16 * PageSize
MmapBase == WordMod \div 2

\* size_t / pointer arithmetic
W(x) == x % WordMod

ALIGN(size) == (W(size + (ALIGNMENT - 1)) \div ALIGNMENT) * ALIGNMENT

min(a, b) == IF a < b THEN a ELSE b

PageUp(len) == ((len + PageSize - 1) \div PageSize) * PageSize

\* ------------------------------------------------------------------------
\* Memory contents.  Memory is a set of segments [lo, hi, k, d]: the bytes
\* a in lo..hi-1 hold the value <<k, a + d>>, where k is "u" (bytes stored
\* by the caller) or "h" (bytes of a header written by the allocator) and
\* a + d is the address the byte was first written at.  A byte covered by
\* no segment is zero (fresh memory of the operating system, or memset).
\* ------------------------------------------------------------------------
Zero == <<"z", 0>>

ByteAt(mem, a) ==
    IF \E s \in mem : s.lo <= a /\ a < s.hi
    THEN LET s == CHOOSE s \in mem : s.lo <= a /\ a < s.hi IN <<s.k, a + s.d>>
    ELSE Zero

\* the segments of mem outside lo..hi-1
MemClear(mem, lo, hi) ==
    {s \in mem : s.hi <= lo \/ s.lo >= hi}
    \cup {[s EXCEPT !.hi = lo] : s \in {t \in mem : t.lo < lo /\ t.hi > lo}}
    \cup {[s EXCEPT !.lo = hi] : s \in {t \in mem : t.lo < hi /\ t.hi > hi}}

MemWrite(mem, lo, hi, k) ==
    IF hi <= lo THEN mem
    ELSE MemClear(mem, lo, hi) \cup {[lo |-> lo, hi |-> hi, k |-> k, d |-> 0]}

\* memset(ptr, 0, n)
memset0(mem, ptr, n) == MemClear(mem, ptr, ptr + n)

\* memmove(dst, src, n): the bytes of src..src+n-1 as they were, at dst
memmove(mem, dst, src, n) ==
    LET part == {s \in mem : s.lo < src + n /\ s.hi > src}
        moved == {[lo |-> (IF s.lo < src THEN src ELSE s.lo) + (dst - src),
                   hi |-> (IF s.hi > src + n THEN src + n ELSE s.hi) + (dst - src),
                   k |-> s.k,
                   d |-> s.d - (dst - src)] : s \in part}
    IN IF n <= 0 \/ dst = src THEN mem
       ELSE MemClear(mem, dst, dst + n) \cup moved

\* the offsets at which the contents of two byte ranges can start to differ
Cuts(mem, base, n) ==
    {0} \cup {s.lo - base : s \in {t \in mem : t.lo > base /\ t.lo < base + n}}
        \cup {s.hi - base : s \in {t \in mem : t.hi > base /\ t.hi < base + n}}

\* the n bytes at q in mem2 are the n bytes at p in mem1
SameBytes(mem2, q, mem1, p, n) ==
    \A i \in Cuts(mem2, q, n) \cup Cuts(mem1, p, n) :
        n > 0 => ByteAt(mem2, q + i) = ByteAt(mem1, p + i)

\* the n bytes at p are all zero
AllZero(mem, p, n) == \A s \in mem : s.hi <= p \/ s.lo >= p + n \/ n <= 0


\* ------------------------------------------------------------------------
\* The allocator.  An allocator state a is a record:
\*   list    the blocks reachable from head, in list order, each a record
\*           [addr, size, status] (the header's address and its fields)
\*   brk     the program break
\*   maps    the live anonymous mappings, each [addr, len]
\*   pre     heap_preallocated
\*   thr     MAP_THRESHOLD
\*   mem     the memory contents
\*   st      "running", "fatal" (ended by DIE) or "segv" (ended by a store
\*           through an invalid pointer)
\* and, for the call in progress:
\*   failAt  1: the call's sbrk/mmap request fails (a call makes at most one)
\*   osfail  an operating-system request of the call has failed
\*   oob     a header was written outside the memory obtained so far
\*   grew    the total by which sbrk moved the break
\*   newhdr  the header split_block created (NULL: none)
\*   r       the last sbrk/mmap result
\*   blk     the block request_memory returned (NoBlock: NULL)
\*   ret     the value the call returns
\* ------------------------------------------------------------------------
NoBlock == [addr |-> NULL, size |-> 0, status |-> "NONE"]

\* one statement after another: Bind(e, F) = F(e), with e evaluated once
Bind(e, F(_)) == CHOOSE r \in {F(x) : x \in {e}} : TRUE

\* the position in the list of the block whose header is at addr (0: none)
IndexOf(list, addr) ==
    IF \E i \in 1..Len(list) : list[i].addr = addr
    THEN CHOOSE i \in 1..Len(list) :
            list[i].addr = addr /\ \A j \in 1..(i - 1) : list[j].addr # addr
    ELSE 0

RemoveAt(list, i) == SubSeq(list, 1, i - 1) \o SubSeq(list, i + 1, Len(list))

InsertAfter(list, i, b) == SubSeq(list, 1, i) \o <<b>> \o SubSeq(list, i + 1, Len(list))

\* DIE(1, ...): the fatal reporter ends the process
DIE(a) == [a EXCEPT !.st = "fatal"]

\* the bytes lo..lo+len-1 lie in memory obtained from the operating system
Owned(a, lo, len) ==
    \/ lo >= HeapBase /\ lo + len <= a.brk
    \/ \E m \in a.maps : lo >= m.addr /\ lo + len <= m.addr + PageUp(m.len)

\* a store of a whole header (size, next, status) at address h
HdrWrite(a, h) ==
    [a EXCEPT !.mem = MemWrite(@, h, h + ALIGN(BLOCK_META_SIZE), "h"),
              !.oob = @ \/ ~Owned(a, h, ALIGN(BLOCK_META_SIZE))]

\* sbrk(inc): the old break, or (void *) -1 when the request fails
sbrk(a, inc) ==
    IF a.failAt = 1 \/ a.brk + inc > MmapBase
    THEN [a EXCEPT !.osfail = TRUE, !.r = ALLOCATION_FAILED]
    ELSE [a EXCEPT !.brk = @ + inc, !.grew = @ + inc, !.r = a.brk]

\* the lowest page-aligned address at or above MmapBase with len free bytes
MapAddr(maps, len) ==
    LET cand == {MmapBase} \cup {m.addr + PageUp(m.len) : m \in maps}
        free == {c \in cand : /\ c + PageUp(len) <= WordMod - PageSize
                              /\ \A m \in maps : \/ c + PageUp(len) <= m.addr
                                                 \/ m.addr + PageUp(m.len) <= c}
    IN IF free = {} THEN ALLOCATION_FAILED
       ELSE CHOOSE c \in free : \A e \in free : c <= e

\* mmap(NULL, len, ...): the new mapping, or MAP_FAILED
mmap(a, len) ==
    LET at == MapAddr(a.maps, len) IN
    IF a.failAt = 1 \/ len = 0 \/ at = ALLOCATION_FAILED
    THEN [a EXCEPT !.osfail = TRUE, !.r = ALLOCATION_FAILED]
    ELSE [a EXCEPT !.maps = @ \cup {[addr |-> at, len |-> len]}, !.r = at]

\* munmap(addr, len): the pages of addr..addr+len-1 leave the address space
munmap(a, addr, len) ==
    [a EXCEPT !.maps = {m \in @ : m.addr + PageUp(m.len) <= addr \/ m.addr >= addr + len},
              !.mem = MemClear(@, addr, addr + PageUp(len))]

\* add_memory_block that links every block at the head like a MAPPED block
add_memory_block_at_head(a, block) ==
    IF block.status \in {STATUS_MAPPED, STATUS_ALLOC} THEN
        [a EXCEPT !.list = <<block>> \o @]
    ELSE IF block.status = STATUS_FREE /\ a.pre = 0 THEN
        [a EXCEPT !.list = <<block>> \o @]
    ELSE DIE(a)

\* add_memory_block that links a MAPPED block at the tail like a heap block
add_memory_block_at_tail(a, block) ==
    IF block.status \in {STATUS_MAPPED, STATUS_ALLOC} THEN
        [a EXCEPT !.list = Append(@, block)]
    ELSE IF block.status = STATUS_FREE /\ a.pre = 0 THEN
        [a EXCEPT !.list = Append(@, block)]
    ELSE DIE(a)

add_memory_block(a, block) ==
    IF block.status = STATUS_MAPPED THEN
        [a EXCEPT !.list = <<block>> \o @]
    ELSE IF block.status = STATUS_ALLOC THEN
        [a EXCEPT !.list = Append(@, block)]
    ELSE IF block.status = STATUS_FREE /\ a.pre = 0 THEN
        [a EXCEPT !.list = Append(@, block)]
    ELSE DIE(a)

get_block_ptr(ptr) == W(ptr - BLOCK_META_SIZE)

get_ptr_block(addr) == W(addr + BLOCK_META_SIZE)

remove_memory_block(list, addr) ==
    IF IndexOf(list, addr) = 0 THEN list ELSE RemoveAt(list, IndexOf(list, addr))

is_block_in_memory(list, addr) == IndexOf(list, addr) # 0

request_memory(a, size) ==
    LET total_size == W(ALIGN(size) + ALIGN(BLOCK_META_SIZE)) IN
    Bind(IF total_size < a.thr THEN sbrk(a, total_size) ELSE mmap(a, total_size),
         LAMBDA o :
            IF o.r = ALLOCATION_FAILED \/ o.r = NULL
            THEN [o EXCEPT !.blk = NoBlock]
            ELSE [HdrWrite(o, o.r) EXCEPT
                     !.blk = [addr |-> o.r, size |-> ALIGN(size),
                              status |-> IF total_size < a.thr THEN STATUS_ALLOC
                                         ELSE STATUS_MAPPED]])

\* sbrk reports failure as (void *) -1, which DIE(heap == NULL) lets pass:
\* the store to heap->size then goes through the pointer -1
preallocate_heap(a) ==
    Bind(sbrk(a, PREALLOC_SIZE), LAMBDA o :
        IF o.r = NULL THEN DIE(o)
        ELSE IF o.r = ALLOCATION_FAILED THEN [o EXCEPT !.st = "segv", !.oob = TRUE]
        ELSE add_memory_block(HdrWrite(o, o.r),
                              [addr |-> o.r,
                               size |-> PREALLOC_SIZE - ALIGN(BLOCK_META_SIZE),
                               status |-> STATUS_FREE]))

\* coalesce_blocks(list[i], list[i+1])
coalesce_blocks(list, i) ==
    RemoveAt([list EXCEPT ![i].size = W(@ + list[i + 1].size + ALIGN(BLOCK_META_SIZE)),
                          ![i].status = STATUS_FREE], i + 1)

\* the loop of coalesce_memory with current at position i
RECURSIVE coalesce_from(_, _)
coalesce_from(list, i) ==
    IF i + 1 > Len(list) THEN list
    ELSE IF list[i].status = STATUS_FREE /\ list[i + 1].status = STATUS_FREE
         THEN Bind(coalesce_blocks(list, i), LAMBDA l : coalesce_from(l, i + 1))
         ELSE coalesce_from(list, i + 1)

coalesce_memory(list) == coalesce_from(list, 1)

\* split_block whose remainder keeps the bytes of its own header in its size
split_block_header_in_size(a, i, size) ==
    LET block == a.list[i]
        new_block == [addr |-> W(block.addr + ALIGN(BLOCK_META_SIZE) + ALIGN(size)),
                      size |-> W(block.size - ALIGN(size)),
                      status |-> STATUS_FREE]
    IN IF block.size >= W(ALIGN(size) + ALIGN(BLOCK_META_SIZE) + ALIGNMENT)
       THEN [HdrWrite(a, new_block.addr) EXCEPT
                !.list = InsertAfter([a.list EXCEPT ![i].size = ALIGN(size),
                                                    ![i].status = STATUS_ALLOC],
                                     i, new_block),
                !.newhdr = new_block.addr]
       ELSE [a EXCEPT !.list[i].status = STATUS_ALLOC]

\* split_block whose else branch leaves the status as it was
split_block_keeps_status(a, i, size) ==
    LET block == a.list[i]
        new_block == [addr |-> W(block.addr + ALIGN(BLOCK_META_SIZE) + ALIGN(size)),
                      size |-> W(block.size - ALIGN(size) - ALIGN(BLOCK_META_SIZE)),
                      status |-> STATUS_FREE]
    IN IF block.size >= W(ALIGN(size) + ALIGN(BLOCK_META_SIZE) + ALIGNMENT)
       THEN [HdrWrite(a, new_block.addr) EXCEPT
                !.list = InsertAfter([a.list EXCEPT ![i].size = ALIGN(size),
                                                    ![i].status = STATUS_ALLOC],
                                     i, new_block),
                !.newhdr = new_block.addr]
       ELSE a

\* split_block(list[i], size)
split_block(a, i, size) ==
    LET block == a.list[i]
        new_block == [addr |-> W(block.addr + ALIGN(BLOCK_META_SIZE) + ALIGN(size)),
                      size |-> W(block.size - ALIGN(size) - ALIGN(BLOCK_META_SIZE)),
                      status |-> STATUS_FREE]
    IN IF block.size >= W(ALIGN(size) + ALIGN(BLOCK_META_SIZE) + ALIGNMENT)
       THEN [HdrWrite(a, new_block.addr) EXCEPT
                !.list = InsertAfter([a.list EXCEPT ![i].size = ALIGN(size),
                                                    ![i].status = STATUS_ALLOC],
                                     i, new_block),
                !.newhdr = new_block.addr]
       ELSE [a EXCEPT !.list[i].status = STATUS_ALLOC]

\* the scan with the replacement test >= : the last of equal sizes wins
RECURSIVE best_from_last_tie(_, _, _, _)
best_from_last_tie(list, size, i, best) ==
    IF i > Len(list) THEN best
    ELSE IF list[i].status = STATUS_FREE /\ list[i].size >= size
              /\ (best = 0 \/ list[best].size >= list[i].size)
         THEN best_from_last_tie(list, size, i + 1, i)
         ELSE best_from_last_tie(list, size, i + 1, best)

\* the scan of find_best_free_block from position i with best so far
RECURSIVE best_from(_, _, _, _)
best_from(list, size, i, best) ==
    IF i > Len(list) THEN best
    ELSE IF list[i].status = STATUS_FREE /\ list[i].size >= size
              /\ (best = 0 \/ list[best].size > list[i].size)
         THEN best_from(list, size, i + 1, i)
         ELSE best_from(list, size, i + 1, best)

\* find_best_free_block: the coalesced list and the position of the best
\* block in it (0: NULL)
find_best_free_block(list, size) ==
    Bind(coalesce_memory(list),
         LAMBDA l : [list |-> l, best |-> best_from(l, size, 1, 0)])

\* find_last_free_block: the position of the last block if it is free (0: NULL)
find_last_free_block(list) ==
    IF list[Len(list)].status = STATUS_FREE THEN Len(list) ELSE 0

\* os_malloc, lines 275-279: the request is served by a mapping
malloc_mapped(a, size) ==
    Bind(request_memory(a, size), LAMBDA o :
        IF o.blk = NoBlock THEN DIE(o)
        ELSE [add_memory_block(o, o.blk) EXCEPT !.ret = get_ptr_block(o.blk.addr)])

\* os_malloc, lines 259-264: no free block to expand, a new heap block
malloc_fresh(a, size) ==
    Bind(request_memory(a, size), LAMBDA o :
        IF o.blk = NoBlock THEN DIE(o)
        ELSE [add_memory_block(o, o.blk) EXCEPT !.ret = get_ptr_block(o.blk.addr)])

\* the expansion that requests size - last->size, the header not deducted
malloc_expand_with_header(a, size, last) ==
    Bind(request_memory(a, W(size - a.list[last].size)),
         LAMBDA o :
            IF o.blk = NoBlock THEN DIE(o)
            ELSE [o EXCEPT !.list[last].size = W(@ + o.blk.size + ALIGN(BLOCK_META_SIZE)),
                           !.list[last].status = STATUS_ALLOC,
                           !.ret = get_ptr_block(a.list[last].addr)])

\* os_malloc, lines 265-272: the last block is free and is expanded
malloc_expand(a, size, last) ==
    Bind(request_memory(a, W(size - a.list[last].size - ALIGN(BLOCK_META_SIZE))),
         LAMBDA o :
            IF o.blk = NoBlock THEN DIE(o)
            ELSE [o EXCEPT !.list[last].size = W(@ + o.blk.size + ALIGN(BLOCK_META_SIZE)),
                           !.list[last].status = STATUS_ALLOC,
                           !.ret = get_ptr_block(a.list[last].addr)])

\* os_malloc, lines 242-274: the request is served by the heap
malloc_heap(a, size) ==
    Bind(IF a.pre = 0 THEN preallocate_heap(a) ELSE a, LAMBDA p :
        IF p.st # "running" THEN p
        ELSE Bind(find_best_free_block(p.list, ALIGN(size)), LAMBDA f :
             Bind([p EXCEPT !.pre = 1, !.list = f.list], LAMBDA c :
                IF f.best # 0
                THEN [split_block(c, f.best, size) EXCEPT
                         !.ret = get_ptr_block(c.list[f.best].addr)]
                ELSE IF find_last_free_block(c.list) = 0
                     THEN malloc_fresh(c, size)
                     ELSE malloc_expand(c, size, find_last_free_block(c.list)))))

os_malloc(a, size) ==
    IF size = 0 THEN [a EXCEPT !.ret = NULL]
    ELSE IF W(ALIGN(size) + ALIGN(BLOCK_META_SIZE)) < a.thr
         THEN malloc_heap(a, size)
         ELSE malloc_mapped(a, size)

\* os_free that coalesces without marking the block free
os_free_keeps_status(a, ptr) ==
    LET i == IndexOf(a.list, get_block_ptr(ptr)) IN
    IF ptr = NULL THEN a
    ELSE IF ~is_block_in_memory(a.list, get_block_ptr(ptr)) THEN a
    ELSE IF a.list[i].status = STATUS_ALLOC
         THEN [a EXCEPT !.list = coalesce_memory(@)]
    ELSE IF a.list[i].status = STATUS_MAPPED
         THEN munmap([a EXCEPT !.list = remove_memory_block(@, get_block_ptr(ptr))],
                     get_block_ptr(ptr), W(a.list[i].size + BLOCK_META_SIZE))
    ELSE a

\* os_free that treats every block that is not MAPPED as one to free
os_free_any_heap_block(a, ptr) ==
    LET i == IndexOf(a.list, get_block_ptr(ptr)) IN
    IF ptr = NULL THEN a
    ELSE IF ~is_block_in_memory(a.list, get_block_ptr(ptr)) THEN a
    ELSE IF a.list[i].status = STATUS_MAPPED
         THEN munmap([a EXCEPT !.list = remove_memory_block(@, get_block_ptr(ptr))],
                     get_block_ptr(ptr), W(a.list[i].size + BLOCK_META_SIZE))
    ELSE [a EXCEPT !.list = coalesce_memory([@ EXCEPT ![i].status = STATUS_FREE])]

os_free(a, ptr) ==
    LET i == IndexOf(a.list, get_block_ptr(ptr)) IN
    IF ptr = NULL THEN a
    ELSE IF ~is_block_in_memory(a.list, get_block_ptr(ptr)) THEN a
    ELSE IF a.list[i].status = STATUS_ALLOC
         THEN [a EXCEPT !.list = coalesce_memory([@ EXCEPT ![i].status = STATUS_FREE])]
    ELSE IF a.list[i].status = STATUS_MAPPED
         THEN munmap([a EXCEPT !.list = remove_memory_block(@, get_block_ptr(ptr))],
                     get_block_ptr(ptr), W(a.list[i].size + BLOCK_META_SIZE))
    ELSE a

os_calloc(a, nmemb, size) ==
    Bind(os_malloc([a EXCEPT !.thr = PageSize], W(nmemb * size)), LAMBDA m :
        IF m.st # "running" THEN m
        ELSE IF m.ret = NULL THEN [m EXCEPT !.thr = DEFAULT_MAP_THRESHOLD]
        ELSE [m EXCEPT !.thr = DEFAULT_MAP_THRESHOLD,
                       !.mem = memset0(@, m.ret, W(nmemb * size))])

\* block->size read through a pointer whose header may have left the list
\* (os_realloc line 368): the field of the list's block if the header is
\* still one, else the bytes now at that address: the next or status field
\* of the header split_block has written over it, or the old size
stale_size(a, b, old) ==
    LET n == IndexOf(a.list, a.newhdr) IN
    IF IndexOf(a.list, b) # 0 THEN a.list[IndexOf(a.list, b)].size
    ELSE IF a.newhdr # NULL /\ a.newhdr + OFF_NEXT = b + OFF_SIZE
         THEN IF n # 0 /\ n < Len(a.list) THEN a.list[n + 1].addr ELSE NULL
    ELSE IF a.newhdr # NULL /\ a.newhdr + OFF_STATUS = b + OFF_SIZE
         THEN 0
    ELSE old

\* os_realloc, lines 369-377 and 379-385: a new block, copy, free the old
realloc_move(a, ptr, size) ==
    Bind(os_malloc(a, size), LAMBDA m :
        LET block == m.list[IndexOf(m.list, get_block_ptr(ptr))] IN
        IF m.st # "running" \/ m.ret = NULL THEN m
        ELSE Bind([m EXCEPT !.mem = memmove(@, m.ret, ptr, min(block.size, size))],
                  LAMBDA c : os_free(c, ptr)))

\* os_realloc, lines 361-368: the block is the last one; it is freed first
realloc_tail(a, ptr, size) ==
    LET b == get_block_ptr(ptr)
        old == a.list[IndexOf(a.list, b)].size
    IN Bind(os_free(a, ptr), LAMBDA c :
       Bind(os_malloc(c, size), LAMBDA m :
          IF m.st # "running" \/ m.ret = NULL THEN m
          ELSE [m EXCEPT !.mem = memmove(@, m.ret, ptr,
                                         min(stale_size(m, b, old), size))]))

\* the growth whose capacity test leaves out the header of the successor
realloc_grow_less_header(a, ptr, size) ==
    Bind([a EXCEPT !.list = coalesce_memory(@)], LAMBDA c :
        LET i == IndexOf(c.list, get_block_ptr(ptr))
            block == c.list[i]
        IN IF /\ i < Len(c.list)
              /\ c.list[i + 1].status = STATUS_FREE
              /\ W(block.size + c.list[i + 1].size) >= size
           THEN Bind([c EXCEPT !.list = RemoveAt(
                        [@ EXCEPT ![i].size = W(@ + c.list[i + 1].size
                                                  + ALIGN(BLOCK_META_SIZE)),
                                  ![i].status = STATUS_ALLOC], i + 1)],
                     LAMBDA g : [split_block(g, i, size) EXCEPT !.ret = ptr])
           ELSE IF i = Len(c.list) THEN realloc_tail(c, ptr, size)
           ELSE realloc_move(c, ptr, size))

\* os_realloc, lines 350-377: the block must grow
realloc_grow(a, ptr, size) ==
    Bind([a EXCEPT !.list = coalesce_memory(@)], LAMBDA c :
        LET i == IndexOf(c.list, get_block_ptr(ptr))
            block == c.list[i]
        IN IF /\ i < Len(c.list)
              /\ c.list[i + 1].status = STATUS_FREE
              /\ W(block.size + c.list[i + 1].size + ALIGN(BLOCK_META_SIZE)) >= size
           THEN Bind([c EXCEPT !.list = RemoveAt(
                        [@ EXCEPT ![i].size = W(@ + c.list[i + 1].size
                                                  + ALIGN(BLOCK_META_SIZE)),
                                  ![i].status = STATUS_ALLOC], i + 1)],
                     LAMBDA g : [split_block(g, i, size) EXCEPT !.ret = ptr])
           ELSE IF i = Len(c.list) THEN realloc_tail(c, ptr, size)
           ELSE realloc_move(c, ptr, size))

\* the test that compares the block's size with the size plus a header
size_unchanged_with_header(block, size) ==
    block.size = W(size + ALIGN(BLOCK_META_SIZE))

\* os_realloc, line 340: the size did not change (size is aligned)
size_unchanged(block, size) == block.size = size

\* os_realloc; ptr is NULL or the handle of a header that is in the list
os_realloc(a, ptr, size) ==
    LET i == IndexOf(a.list, get_block_ptr(ptr))
        block == a.list[i]
    IN IF ptr = NULL THEN os_malloc(a, size)
       ELSE IF size = 0 THEN [os_free(a, ptr) EXCEPT !.ret = NULL]
       ELSE IF block.status = STATUS_FREE THEN [a EXCEPT !.ret = NULL]
       ELSE IF size_unchanged(block, ALIGN(size)) THEN [a EXCEPT !.ret = ptr]
       ELSE IF block.status = STATUS_ALLOC
            THEN IF block.size > ALIGN(size)
                 THEN [split_block(a, i, ALIGN(size)) EXCEPT !.ret = ptr]
                 ELSE realloc_grow(a, ptr, ALIGN(size))
       ELSE realloc_move(a, ptr, ALIGN(size))

\* ------------------------------------------------------------------------
\* The state machine: a caller makes up to MaxCalls public calls.
\*   head               the block list (the blocks reachable from head)
\*   brk, maps, mem     the program break, the live mappings, the memory
\*   heap_preallocated, MAP_THRESHOLD   the globals of the source
\*   proc               "running", "fatal" or "segv"
\*   live               the handles returned and not yet freed or replaced
\*   hist               the last three public calls, oldest first
\*   calls, stores      the number of public calls and of caller stores
\* ------------------------------------------------------------------------
VARIABLES head, brk, maps, heap_preallocated, MAP_THRESHOLD, mem, proc,
          live, hist, calls, stores

vars == <<head, brk, maps, heap_preallocated, MAP_THRESHOLD, mem, proc,
          live, hist, calls, stores>>

Init ==
    /\ head = <<>>
    /\ brk = HeapBase
    /\ maps = {}
    /\ heap_preallocated = 0
    /\ MAP_THRESHOLD = DEFAULT_MAP_THRESHOLD
    /\ mem = {}
    /\ proc = "running"
    /\ live = {}
    /\ hist = <<>>
    /\ calls = 0
    /\ stores = 0

\* the state a call starts in; f: the call's operating-system request fails
Cur(f) ==
    [list |-> head, brk |-> brk, maps |-> maps, pre |-> heap_preallocated,
     thr |-> MAP_THRESHOLD, mem |-> mem, st |-> proc,
     failAt |-> f, osfail |-> FALSE, oob |-> FALSE, grew |-> 0,
     newhdr |-> NULL, r |-> NULL, blk |-> NoBlock, ret |-> NULL]

\* the status and size of the block whose handle is ptr ("NONE": no block)
StatusOf(list, ptr) ==
    IF IndexOf(list, get_block_ptr(ptr)) = 0 THEN "NONE"
    ELSE list[IndexOf(list, get_block_ptr(ptr))].status

SizeOf(list, ptr) ==
    IF IndexOf(list, get_block_ptr(ptr)) = 0 THEN 0
    ELSE list[IndexOf(list, get_block_ptr(ptr))].size

\* the record of a call: what was asked, the block of ptr before the call,
\* and what the call did
CallRec(op, ptr, nmemb, size, a) ==
    [op |-> op, ptr |-> ptr, nmemb |-> nmemb, size |-> size,
     was |-> IF ptr = NULL THEN "NULL" ELSE StatusOf(head, ptr),
     osz |-> SizeOf(head, ptr),
     returned |-> a.st = "running", ret |-> a.ret,
     osfail |-> a.osfail, oob |-> a.oob, grew |-> a.grew]

Push(h, rec) == IF Len(h) < 3 THEN Append(h, rec) ELSE <<h[2], h[3], rec>>

\* the call ends in state a
Commit(a, rec) ==
    /\ head' = a.list
    /\ brk' = a.brk
    /\ maps' = a.maps
    /\ heap_preallocated' = a.pre
    /\ MAP_THRESHOLD' = a.thr
    /\ mem' = a.mem
    /\ proc' = a.st
    /\ hist' = Push(hist, rec)
    /\ calls' = calls + 1
    /\ stores' = stores

\* a further call may start
CanCall(Max) == proc = "running" /\ calls < Max

\* the handles of the blocks of the list
Handles == {get_ptr_block(head[i].addr) : i \in 1..Len(head)}

\* the pointer of the last call (a freed handle, for one)
LastPtr == IF hist = <<>> THEN NULL ELSE hist[Len(hist)].ptr

\* a pointer the allocator never returned
Bogus == HeapBase + ALIGNMENT

\* os_malloc(n) for a size n of Sizes
Malloc(Sizes, Fails, Max) ==
    /\ CanCall(Max)
    /\ \E n \in Sizes, f \in Fails :
        \E a \in {os_malloc(Cur(f), n)} :
            /\ Commit(a, CallRec("malloc", NULL, 0, n, a))
            /\ live' = IF a.st = "running" /\ a.ret # NULL THEN live \cup {a.ret} ELSE live

\* os_calloc(k, s) for a pair <<k, s>> of Args
Calloc(Args, Fails, Max) ==
    /\ CanCall(Max)
    /\ \E ks \in Args, f \in Fails :
        \E a \in {os_calloc(Cur(f), ks[1], ks[2])} :
            /\ Commit(a, CallRec("calloc", NULL, ks[1], ks[2], a))
            /\ live' = IF a.st = "running" /\ a.ret # NULL THEN live \cup {a.ret} ELSE live

\* os_free(p) for the handle of a block of the list or a pointer of Others
Free(Others, Max) ==
    /\ CanCall(Max)
    /\ \E p \in Handles \cup Others :
        \E a \in {os_free(Cur(0), p)} :
            /\ Commit(a, CallRec("free", p, 0, 0, a))
            /\ live' = live \ {p}

\* os_realloc(p, n) for the handle of a block of the list or NULL
Realloc(Sizes, Fails, Max) ==
    /\ CanCall(Max)
    /\ \E p \in Handles \cup {NULL}, n \in Sizes, f \in Fails :
        \E a \in {os_realloc(Cur(f), p, n)} :
            /\ Commit(a, CallRec("realloc", p, 0, n, a))
            /\ live' = IF a.st # "running" THEN live
                       ELSE IF a.ret # NULL THEN (live \ {p}) \cup {a.ret}
                       ELSE IF n = 0 THEN live \ {p}
                       ELSE live

\* the caller fills the payload of a block it holds
Store ==
    \E p \in live :
        /\ proc = "running"
        /\ stores < MaxStores
        /\ SizeOf(head, p) > 0
        /\ mem' = MemWrite(mem, p, p + SizeOf(head, p), "u")
        /\ stores' = stores + 1
        /\ UNCHANGED <<head, brk, maps, heap_preallocated, MAP_THRESHOLD, proc,
                       live, hist, calls>>

\* the request sizes the caller draws from
SmallA == 8 * ALIGNMENT
\* the payload the first split leaves free after SmallA: taking it whole
\* leaves the list without a free block
RestA == PREALLOC_SIZE - 2 * ALIGN(BLOCK_META_SIZE) - SmallA
Big == 25000 * ALIGNMENT
MallocSizes == {SmallA, RestA, Big}
ReallocSizes == {0, SmallA, RestA + ALIGNMENT, Big}
CallocArgs == {<<1, 5>>, <<1, PageSize>>}

\* Any calls, the operating system never failing
Next ==
    \/ Malloc(MallocSizes, {0}, MaxCalls)
    \/ Calloc(CallocArgs, {0}, MaxCalls)
    \/ Free({NULL, Bogus, LastPtr}, MaxCalls)
    \/ Realloc(ReallocSizes, {0}, MaxCalls)

Spec == Init /\ [][Next]_vars

\* Any calls, also with sizes at the end of the word range, products that
\* leave it, and a failing operating system
SmallB == 25 * ALIGNMENT
EdgeSizes == {SmallB, WordMod - 1}
EdgeMalloc == {0} \cup MallocSizes \cup EdgeSizes
EdgeCallocArgs == {<<WordMod \div 2, 2>>, <<WordMod \div 2 + 3, 2>>}

NextEdge ==
    \/ Malloc(EdgeMalloc, {0, 1}, MaxCalls)
    \/ Calloc(CallocArgs \cup EdgeCallocArgs, {0, 1}, MaxCalls)
    \/ Free({NULL, Bogus, LastPtr}, MaxCalls)
    \/ Realloc(ReallocSizes \cup EdgeSizes, {0, 1}, MaxCalls)
    \/ Store

SpecEdge == Init /\ [][NextEdge]_vars

\* Longer runs of heap-sized calls
DeepMalloc == {SmallA, RestA}
DeepRealloc == {RestA + ALIGNMENT}

NextDeep ==
    \/ Malloc(DeepMalloc, {0}, MaxDeepCalls)
    \/ Free({}, MaxDeepCalls)
    \/ Realloc(DeepRealloc, {0}, MaxDeepCalls)
    \/ Store

SpecDeep == Init /\ [][NextDeep]_vars

\* Heap-sized calls with requests a little above the size of a free tail
SmallC == SmallA + 6
TailMalloc == {SmallA, SmallC, RestA}
TailRealloc == {SmallA, RestA + ALIGNMENT, RestA + 10 * ALIGNMENT}

NextTail ==
    \/ Malloc(TailMalloc, {0}, MaxCalls)
    \/ Free({}, MaxCalls)
    \/ Realloc(TailRealloc, {0}, MaxCalls)
    \/ Store

SpecTail == Init /\ [][NextTail]_vars

\* Four calls that shrink a block in steps and then ask for the whole rest:
\* each shrink splits a free remainder off in front of the free blocks
\* that already follow
RunsMalloc == {RestA}
RunsRealloc == {SmallA, ALIGNMENT}
RunsCallocArgs == {<<1, 5>>}

NextRuns ==
    \/ Malloc(RunsMalloc, {0}, MaxDeepCalls)
    \/ Calloc(RunsCallocArgs, {0}, MaxDeepCalls)
    \/ Free({}, MaxDeepCalls)
    \/ Realloc(RunsRealloc, {0}, MaxDeepCalls)

SpecRuns == Init /\ [][NextRuns]_vars

\* One coalesce pass over any list of up to MaxBlocks heap blocks, which
\* lie one after the other from HeapBase, each FREE or ALLOCATED, alone or
\* after a MAPPED block.
BlockSizes == {ALIGNMENT, 2 * ALIGNMENT}

\* the address of block i of a heap whose blocks have the sizes and
\* statuses f[1], f[2], ...
RECURSIVE AddrAt(_, _)
AddrAt(f, i) ==
    IF i = 1 THEN HeapBase
    ELSE AddrAt(f, i - 1) + ALIGN(BLOCK_META_SIZE) + f[i - 1][1]

HeapLists ==
    UNION {{[i \in 1..n |-> [addr |-> AddrAt(f, i), size |-> f[i][1], status |-> f[i][2]]]
              : f \in [1..n -> BlockSizes \X {STATUS_FREE, STATUS_ALLOC}]}
           : n \in 1..MaxBlocks}

\* a block of one page obtained by mmap, and its mapping
MappedBlock == [addr |-> MmapBase, size |-> PageSize, status |-> STATUS_MAPPED]

MappedRegion == [addr |-> MmapBase, len |-> PageSize + ALIGN(BLOCK_META_SIZE)]

\* the heap lists, alone or after a MAPPED block
AnyLists == HeapLists \cup {<<MappedBlock>> \o l : l \in HeapLists}

InitCoalesce ==
    /\ head \in AnyLists
    /\ brk = head[Len(head)].addr + ALIGN(BLOCK_META_SIZE) + head[Len(head)].size
    /\ maps = IF head[1].status = STATUS_MAPPED THEN {MappedRegion} ELSE {}
    /\ heap_preallocated = 1
    /\ MAP_THRESHOLD = DEFAULT_MAP_THRESHOLD
    /\ mem = {}
    /\ proc = "running"
    /\ live = {}
    /\ hist = <<>>
    /\ calls = 0
    /\ stores = 0

\* coalesce_memory()
CoalescePass ==
    /\ calls = 0
    /\ head' = coalesce_memory(head)
    /\ calls' = 1
    /\ UNCHANGED <<brk, maps, heap_preallocated, MAP_THRESHOLD, mem, proc, live,
                   hist, stores>>

SpecCoalesce == InitCoalesce /\ [][CoalescePass]_vars

\* One best-fit search over any such list, for a request of SearchSizes:
\* head becomes the coalesced list, hist the request and the position of
\* the block returned (0: NULL).
SearchSizes == {1, ALIGNMENT, ALIGNMENT + 1, 2 * ALIGNMENT, 3 * ALIGNMENT,
                5 * ALIGNMENT, 7 * ALIGNMENT}

\* find_best_free_block(&last, ALIGN(size)), as os_malloc calls it
BestFit ==
    /\ calls = 0
    /\ \E n \in SearchSizes :
        \E f \in {find_best_free_block(head, ALIGN(n))} :
            /\ head' = f.list
            /\ hist' = <<[op |-> "find", size |-> n, best |-> f.best]>>
    /\ calls' = 1
    /\ UNCHANGED <<brk, maps, heap_preallocated, MAP_THRESHOLD, mem, proc, live,
                   stores>>

SpecBestFit == InitCoalesce /\ [][BestFit]_vars

\* ------------------------------------------------------------------------
\* The claims
\* ------------------------------------------------------------------------
\* the last call
Last(h) == h[Len(h)]

\* a public call has just returned
Returned == hist # <<>> /\ proc = "running" /\ Last(hist).returned

\* this step is a public call
CallStep == calls' = calls + 1

\* align8 of the specification: n rounded up to a multiple of 8, as a number
Align8(n) == ((n + 7) \div 8) * 8

\* the caller has stored into all n bytes at p
Filled(m, p, n) == \E s \in m : s.k = "u" /\ s.lo <= p /\ s.hi >= p + n

\* C1: at the return of every call, no FREE block of the list has a list
\* successor that is FREE too.
C1_NoAdjacentFree ==
    proc = "running" =>
        \A i \in 1..(Len(head) - 1) :
            ~(head[i].status = STATUS_FREE /\ head[i + 1].status = STATUS_FREE)

\* C2: on a fresh allocator, after two allocations served by the
\* preallocated heap and the two frees of their handles, the list is one
\* FREE block with the payload of the preallocation.
C2_TwoFreesCoalesce ==
    (/\ proc = "running" /\ calls = 4 /\ Len(hist) = 3
     /\ hist[2].op = "free" /\ hist[2].was = STATUS_ALLOC
     /\ hist[3].op = "free" /\ hist[3].was = STATUS_ALLOC
     /\ hist[1].op = "malloc"
     /\ brk = HeapBase + PREALLOC_SIZE)
    => head = <<[addr |-> HeapBase,
                 size |-> PREALLOC_SIZE - ALIGN(BLOCK_META_SIZE),
                 status |-> STATUS_FREE]>>

\* C3: after q = resize(p, n) of a live handle p whose payload the caller
\* has stored, n > 0, q not null, the first min(old_size, align8(n)) bytes
\* at q are the bytes that were at p before the call.
C3_ResizeKeepsBytes ==
    [][(/\ CallStep
        /\ Last(hist').op = "realloc" /\ Last(hist').returned
        /\ Last(hist').ptr # NULL /\ Last(hist').size > 0
        /\ Last(hist').was \in {STATUS_ALLOC, STATUS_MAPPED}
        /\ Last(hist').ret # NULL
        /\ Filled(mem, Last(hist').ptr, Last(hist').osz))
       => SameBytes(mem', Last(hist').ret, mem, Last(hist').ptr,
                    min(Last(hist').osz, ALIGN(Last(hist').size)))]_vars

\* C4: every handle the caller holds is the payload address of exactly one
\* block of the list, and that block is ALLOCATED or MAPPED.
C4_LiveHandlesHaveOneBlock ==
    proc = "running" =>
        \A p \in live :
            /\ Cardinality({i \in 1..Len(head) : get_ptr_block(head[i].addr) = p}) = 1
            /\ StatusOf(head, p) \in {STATUS_ALLOC, STATUS_MAPPED}

C4_Witness ==
    /\ Returned /\ Last(hist).op = "realloc" /\ Last(hist).was = STATUS_ALLOC
    /\ Last(hist).ret # NULL /\ Last(hist).ret # Last(hist).ptr
    /\ Cardinality(live) >= 2

\* C5: allocate(n) returns null iff n = 0; for n > 0 the handle is 8-byte
\* aligned and its block's payload is at least align8(n).
C5_MallocResult ==
    (Returned /\ Last(hist).op = "malloc") =>
        /\ Last(hist).ret = NULL <=> Last(hist).size = 0
        /\ Last(hist).size > 0 =>
              /\ Last(hist).ret % ALIGNMENT = 0
              /\ SizeOf(head, Last(hist).ret) >= Align8(Last(hist).size)

\* C6: after p = allocate(n), free(p), with n > 0 heap-sized, the next
\* allocate(n) returns a handle and does not move the break; and the first
\* heap-sized allocate of a fresh allocator leaves the break at the end of
\* the preallocation.
C6_ReuseKeepsBreak ==
    /\ (/\ proc = "running" /\ Len(hist) = 3
        /\ hist[1].op = "malloc" /\ hist[1].size > 0 /\ hist[1].returned
        /\ W(ALIGN(hist[1].size) + ALIGN(BLOCK_META_SIZE)) < DEFAULT_MAP_THRESHOLD
        /\ hist[2].op = "free" /\ hist[2].ptr = hist[1].ret
        /\ hist[3].op = "malloc" /\ hist[3].size = hist[1].size)
       => (hist[3].returned /\ hist[3].ret # NULL /\ hist[3].grew = 0)
    /\ (/\ proc = "running" /\ calls = 1
        /\ hist[1].op = "malloc" /\ hist[1].size > 0
        /\ W(ALIGN(hist[1].size) + ALIGN(BLOCK_META_SIZE)) < DEFAULT_MAP_THRESHOLD)
       => brk = HeapBase + PREALLOC_SIZE

C6_Witness ==
    /\ proc = "running" /\ Len(hist) = 3 /\ calls > 3
    /\ hist[1].op = "malloc" /\ hist[1].size > 0 /\ hist[1].returned
    /\ W(ALIGN(hist[1].size) + ALIGN(BLOCK_META_SIZE)) < DEFAULT_MAP_THRESHOLD
    /\ hist[2].op = "free" /\ hist[2].ptr = hist[1].ret
    /\ hist[3].op = "malloc" /\ hist[3].size = hist[1].size
    /\ hist[3].ret # NULL

\* C7: free(p) changes nothing when p is null, when p's header is not in
\* the list, or when it is in the list with status FREE; so the second of
\* two successive free(p) changes nothing.
C7_FreeNoOp ==
    [][(CallStep /\ Last(hist').op = "free")
       => /\ Last(hist').was \in {"NULL", "NONE", STATUS_FREE}
             => UNCHANGED <<head, brk, maps, heap_preallocated, MAP_THRESHOLD, mem>>
          /\ (hist # <<>> /\ Last(hist).op = "free" /\ Last(hist).ptr = Last(hist').ptr)
             => UNCHANGED <<head, brk, maps, heap_preallocated, MAP_THRESHOLD, mem>>]_vars

C7_Witness ==
    /\ Returned /\ Len(hist) >= 2
    /\ Last(hist).op = "free" /\ hist[Len(hist) - 1].op = "free"
    /\ Last(hist).ptr = hist[Len(hist) - 1].ptr
    /\ hist[Len(hist) - 1].was = STATUS_ALLOC
    /\ Last(hist).was = STATUS_FREE

\* C8: when sbrk or mmap fails during a call, the allocator ends in the
\* fatal state, with no header written into the failed region.
C8_OsFailureIsFatal ==
    (hist # <<>> /\ Last(hist).osfail) => (proc = "fatal" /\ ~Last(hist).oob)

\* C9: zero_allocate(k, s) with k*s # 0 returns a handle whose block has at
\* least align8(k*s) payload bytes, k*s the number, all of them zero.
C9_CallocZeroed ==
    [][(/\ CallStep
        /\ Last(hist').op = "calloc" /\ Last(hist').returned
        /\ Last(hist').nmemb * Last(hist').size # 0)
       => /\ Last(hist').ret # NULL
          /\ SizeOf(head', Last(hist').ret) >= Align8(Last(hist').nmemb * Last(hist').size)
          /\ AllZero(mem', Last(hist').ret, Align8(Last(hist').nmemb * Last(hist').size))]_vars

\* C10: resize(p, n) of a live handle with n > 0 and align8(n) the payload
\* size of p's block returns p and changes nothing.
C10_ResizeSameSize ==
    [][(/\ CallStep
        /\ Last(hist').op = "realloc"
        /\ Last(hist').ptr # NULL /\ Last(hist').size > 0
        /\ Last(hist').was \in {STATUS_ALLOC, STATUS_MAPPED}
        /\ ALIGN(Last(hist').size) = Last(hist').osz)
       => /\ Last(hist').returned /\ Last(hist').ret = Last(hist').ptr
          /\ UNCHANGED <<head, brk, maps, heap_preallocated, MAP_THRESHOLD, mem>>]_vars

C10_Witness ==
    /\ Returned /\ Last(hist).op = "realloc"
    /\ Last(hist).ptr # NULL /\ Last(hist).size > 0
    /\ Last(hist).was \in {STATUS_ALLOC, STATUS_MAPPED}
    /\ ALIGN(Last(hist).size) = Last(hist).osz
    /\ Last(hist).ret = Last(hist).ptr

\* the request of the last call of h takes the mapping branch of os_malloc
\* (the test of line 241, in machine-word arithmetic)
MapSized(rec) ==
    W(ALIGN(rec.size) + ALIGN(BLOCK_META_SIZE)) >= DEFAULT_MAP_THRESHOLD

\* C11: allocate(n) with align8(n) + header >= MAP_THRESHOLD puts one MAPPED
\* block at position 0 of the list and changes neither the break, nor the
\* preallocation flag, nor another block; free of its handle removes that
\* block and its mapping and leaves the list, the break and the flag as
\* they were before the allocate.
C11_MappedAllocFree ==
    [][/\ (/\ CallStep
           /\ Last(hist').op = "malloc" /\ Last(hist').returned
           /\ MapSized(Last(hist')))
          => /\ head' = <<head'[1]>> \o head
             /\ head'[1].status = STATUS_MAPPED
             /\ head'[1].size = ALIGN(Last(hist').size)
             /\ get_ptr_block(head'[1].addr) = Last(hist').ret
             /\ \E m \in maps' \ maps : m.addr = head'[1].addr
             /\ brk' = brk /\ heap_preallocated' = heap_preallocated
       /\ (/\ CallStep
           /\ Last(hist').op = "free"
           /\ hist # <<>> /\ Last(hist).op = "malloc" /\ Last(hist).returned
           /\ MapSized(Last(hist))
           /\ Last(hist').ptr = Last(hist).ret)
          => /\ head' = Tail(head)
             /\ maps' = {m \in maps : m.addr # head[1].addr}
             /\ maps' # maps
             /\ brk' = brk /\ heap_preallocated' = heap_preallocated]_vars

C11_Witness ==
    /\ Returned /\ Len(hist) = 3
    /\ hist[1].op = "malloc" /\ ~MapSized(hist[1]) /\ hist[1].ret # NULL
    /\ hist[2].op = "malloc" /\ MapSized(hist[2]) /\ hist[2].returned
    /\ hist[3].op = "free" /\ hist[3].ptr = hist[2].ret
    /\ Len(head) = 2 /\ maps = {}

\* C12: at the return of every call, every block of the list has a status
\* of FREE, ALLOCATED or MAPPED and a payload size that is positive and a
\* multiple of 8, for every request size of the machine word.
C12_BlocksWellFormed ==
    proc = "running" =>
        \A i \in 1..Len(head) :
            /\ head[i].status \in {STATUS_FREE, STATUS_ALLOC, STATUS_MAPPED}
            /\ head[i].size > 0
            /\ head[i].size % ALIGNMENT = 0

\* C13: at the return of every call, no MAPPED block comes after a FREE or
\* ALLOCATED block in list order: the MAPPED blocks are a prefix of the list.
C13_MappedFirst ==
    proc = "running" =>
        \A i \in 1..Len(head) : \A j \in (i + 1)..Len(head) :
            head[j].status = STATUS_MAPPED => head[i].status = STATUS_MAPPED

C13_Witness ==
    /\ Returned /\ Len(hist) = 3
    /\ hist[1].op = "malloc" /\ MapSized(hist[1]) /\ hist[1].ret # NULL
    /\ hist[2].op = "malloc" /\ ~MapSized(hist[2]) /\ hist[2].ret # NULL
    /\ hist[3].op = "calloc" /\ hist[3].ret # NULL
    /\ Len(head) = 4
    /\ head[1].status = STATUS_MAPPED /\ get_ptr_block(head[1].addr) = hist[3].ret
    /\ head[2].status = STATUS_MAPPED /\ get_ptr_block(head[2].addr) = hist[1].ret
    /\ head[3].status = STATUS_ALLOC

\* every maximal run of FREE blocks of list, from position i on, as one block
RECURSIVE MergeRuns(_, _)
MergeRuns(list, i) ==
    IF i + 1 > Len(list) THEN list
    ELSE IF list[i].status = STATUS_FREE /\ list[i + 1].status = STATUS_FREE
         THEN MergeRuns(
                 SubSeq(list, 1, i - 1)
                 \o <<[list[i] EXCEPT !.size = list[i].size + list[i + 1].size
                                              + Align8(BLOCK_META_SIZE)]>>
                 \o SubSeq(list, i + 2, Len(list)), i)
         ELSE MergeRuns(list, i + 1)

\* C14: one coalesce pass over any list leaves no FREE block followed by a
\* FREE block: every maximal run of FREE blocks becomes one FREE block of
\* the run's payload sizes plus the headers between them.
C14_CoalescePass ==
    [][(calls = 0 /\ calls' = 1)
       => /\ \A i \in 1..(Len(head') - 1) :
                ~(head'[i].status = STATUS_FREE /\ head'[i + 1].status = STATUS_FREE)
          /\ head' = MergeRuns(head, 1)]_vars

\* the positions of the FREE blocks of the list with at least n payload bytes
Fits(list, n) == {i \in 1..Len(list) : list[i].status = STATUS_FREE /\ list[i].size >= n}

\* C15: the best-fit search for a heap-sized allocate(n) returns a FREE
\* block of at least align8(n) bytes, no FREE block of the coalesced list
\* fits with a smaller size, and it is the earliest of its size; it returns
\* null exactly when no FREE block fits.
C15_BestFit ==
    (calls = 1 /\ hist # <<>> /\ hist[1].op = "find") =>
        LET b == hist[1].best
            n == Align8(hist[1].size)
        IN /\ b = 0 <=> Fits(head, n) = {}
           /\ b # 0 =>
                /\ b \in Fits(head, n)
                /\ \A i \in Fits(head, n) : head[i].size >= head[b].size
                /\ \A i \in Fits(head, n) : head[i].size = head[b].size => i >= b

C15_Witness ==
    /\ calls = 1 /\ hist # <<>> /\ hist[1].op = "find"
    /\ hist[1].best > 1
    /\ head[1].status = STATUS_FREE /\ head[1].size > head[hist[1].best].size
    /\ \E j \in (hist[1].best + 1)..Len(head) :
          head[j].status = STATUS_FREE /\ head[j].size = head[hist[1].best].size

\* the list after the coalesce pass of the best-fit search
Searched == coalesce_memory(head)

\* the heap-sized os_malloc of this step finds no best-fit block and the
\* last block of the list is FREE
TailExtension ==
    /\ CallStep
    /\ Last(hist').op = "malloc" /\ Last(hist').returned
    /\ Last(hist').size > 0 /\ ~MapSized(Last(hist'))
    /\ heap_preallocated = 1
    /\ Fits(Searched, Align8(Last(hist').size)) = {}
    /\ Searched[Len(Searched)].status = STATUS_FREE

\* C16: when a heap-sized allocate(n) finds no best-fit block and the last
\* block is FREE with size L < align8(n), the break advances by exactly
\* align8(n) - L, the list keeps its number of blocks, and the last block
\* ends ALLOCATED with payload align8(n) and is the block returned.
C16_TailExtension ==
    [][TailExtension
       => /\ brk' = brk + Align8(Last(hist').size) - Searched[Len(Searched)].size
          /\ Len(head') = Len(Searched)
          /\ \A i \in 1..(Len(head') - 1) : head'[i] = Searched[i]
          /\ head'[Len(head')].addr = Searched[Len(Searched)].addr
          /\ head'[Len(head')].status = STATUS_ALLOC
          /\ head'[Len(head')].size = Align8(Last(hist').size)
          /\ Last(hist').ret = get_ptr_block(head'[Len(head')].addr)]_vars

\* an extension by less than a header: n - L - header wraps
C16_Witness ==
    /\ Returned /\ Last(hist).op = "malloc" /\ Last(hist).size = SmallC
    /\ Last(hist).grew = ALIGNMENT
    /\ head[Len(head)].status = STATUS_ALLOC
    /\ head[Len(head)].size = Align8(SmallC)
    /\ Last(hist).ret = get_ptr_block(head[Len(head)].addr)

\* the heap-sourced blocks of the list, in list order
RECURSIVE HeapPart(_)
HeapPart(list) ==
    IF list = <<>> THEN <<>>
    ELSE IF list[1].status = STATUS_MAPPED THEN HeapPart(Tail(list))
    ELSE <<list[1]>> \o HeapPart(Tail(list))

\* the sum of header plus payload size of the blocks of a list
RECURSIVE Footprint(_)
Footprint(list) ==
    IF list = <<>> THEN 0
    ELSE Align8(BLOCK_META_SIZE) + list[1].size + Footprint(Tail(list))

\* C17: at the return of every call, each heap-sourced block with a list
\* successor is followed in memory by that successor, the last heap-sourced
\* block ends at the program break, and the headers and payloads of the
\* heap-sourced blocks add up to the bytes the break was extended by.
C17_HeapContiguous ==
    (proc = "running" /\ HeapPart(head) # <<>>) =>
        LET h == HeapPart(head) IN
        /\ \A i \in 1..(Len(h) - 1) :
              h[i + 1].addr = h[i].addr + Align8(BLOCK_META_SIZE) + h[i].size
        /\ h[Len(h)].addr + Align8(BLOCK_META_SIZE) + h[Len(h)].size = brk
        /\ Footprint(h) = brk - HeapBase

C17_Witness ==
    /\ Returned /\ Last(hist).op = "malloc" /\ Last(hist).size = SmallC
    /\ Last(hist).grew = ALIGNMENT
    /\ Len(HeapPart(head)) >= 2
    /\ brk > HeapBase + PREALLOC_SIZE

\* the resize of this step is of an ALLOCATED block that must grow and whose
\* successor, after the coalesce pass, is FREE and large enough to absorb
Absorbs ==
    /\ CallStep
    /\ Last(hist').op = "realloc" /\ Last(hist').ptr # NULL
    /\ Last(hist').was = STATUS_ALLOC
    /\ Align8(Last(hist').size) > Last(hist').osz
    /\ LET i == IndexOf(Searched, get_block_ptr(Last(hist').ptr)) IN
       /\ i < Len(Searched)
       /\ Searched[i + 1].status = STATUS_FREE
       /\ Searched[i].size + Searched[i + 1].size + Align8(BLOCK_META_SIZE)
             >= Align8(Last(hist').size)

\* C18: resize(p, n) of an ALLOCATED block b that must grow, whose successor
\* after the coalesce pass is FREE with b.size + successor.size + header >=
\* align8(n), returns p, moves neither the break nor the mappings, leaves b
\* ALLOCATED with at least align8(n) bytes and its old payload bytes as they
\* were, and a FREE remainder, if any, is the block right after b.
C18_GrowInPlace ==
    [][Absorbs =>
        LET rec == Last(hist')
            i == IndexOf(Searched, get_block_ptr(rec.ptr))
            whole == Searched[i].size + Searched[i + 1].size + Align8(BLOCK_META_SIZE)
        IN /\ rec.returned /\ rec.ret = rec.ptr
           /\ brk' = brk /\ maps' = maps
           /\ SubSeq(head', 1, i - 1) = SubSeq(Searched, 1, i - 1)
           /\ head'[i].addr = Searched[i].addr
           /\ head'[i].status = STATUS_ALLOC
           /\ head'[i].size >= Align8(rec.size)
           /\ SameBytes(mem', rec.ptr, mem, rec.ptr, rec.osz)
           /\ \/ /\ head'[i].size = whole
                 /\ SubSeq(head', i + 1, Len(head')) = SubSeq(Searched, i + 2, Len(Searched))
              \/ /\ head'[i].size = Align8(rec.size)
                 /\ head'[i + 1] = [addr |-> head'[i].addr + Align8(BLOCK_META_SIZE)
                                                + head'[i].size,
                                    size |-> whole - head'[i].size
                                                - Align8(BLOCK_META_SIZE),
                                    status |-> STATUS_FREE]
                 /\ SubSeq(head', i + 2, Len(head'))
                       = SubSeq(Searched, i + 2, Len(Searched))]_vars

\* a filled block grows in place and a remainder is split off
C18_Witness ==
    /\ Returned /\ Last(hist).op = "realloc" /\ Last(hist).was = STATUS_ALLOC
    /\ Last(hist).ret = Last(hist).ptr
    /\ Align8(Last(hist).size) > Last(hist).osz
    /\ SizeOf(head, Last(hist).ret) = Align8(Last(hist).size)
    /\ Filled(mem, Last(hist).ret, Last(hist).osz)
    /\ StatusOf(head, Last(hist).ret + SizeOf(head, Last(hist).ret)
                      + Align8(BLOCK_META_SIZE)) = STATUS_FREE

\* C19: every header the allocator writes lies inside memory it has
\* obtained, below the program break or inside a live mapping, the header
\* of the block acquired during a tail extension included.
C19_HeadersInOwnedMemory ==
    \A k \in 1..Len(hist) : ~hist[k].oob


\* the blocks i..j of the list are all FREE
FreeRun(list, i, j) == \A k \in i..j : list[k].status = STATUS_FREE

\* the payloads of the blocks i..j and the aligned headers between them
RECURSIVE RunCapacity(_, _, _)
RunCapacity(list, i, j) ==
    IF i = j THEN list[i].size
    ELSE list[i].size + Align8(BLOCK_META_SIZE) + RunCapacity(list, i + 1, j)

\* this step is a heap-sized os_malloc that moved the program break
GrowingMalloc ==
    /\ CallStep
    /\ Last(hist').op = "malloc" /\ Last(hist').returned
    /\ Last(hist').size > 0 /\ ~MapSized(Last(hist'))
    /\ brk' > brk

\* C20: a heap-sized allocate(n) extends the program break only if no run
\* of list-consecutive FREE heap blocks has a combined capacity, payloads
\* plus the aligned headers between them, of at least align8(n).
C20_GrowsOnlyWhenNoRunFits ==
    [][GrowingMalloc
       => \A i \in 1..Len(head) : \A j \in i..Len(head) :
              FreeRun(head, i, j)
              => RunCapacity(head, i, j) < Align8(Last(hist').size)]_vars

=============================================================================
